---- MODULE Spec2Model ----
(***************************************************************************)
(* Keepalive link manager of the offscreen page                            *)
(* (src/brotab/extension/chrome/offscreen.js).                             *)
(*                                                                         *)
(* The page runs on one event loop: connectSW, the setInterval callback    *)
(* and the onDisconnect listener are handlers that run to completion, so   *)
(* each is one action.  Time is counted in whole seconds; a timer fires    *)
(* at its due second and the clock does not pass a due timer.              *)
(*                                                                         *)
(* Every call of connectSW gets a number (1, 2, ...).  The port that call  *)
(* creates, the pingInterval constant of that call and the listener it     *)
(* registers carry the same number, as they live in the same closure.      *)
(***************************************************************************)
EXTENDS Integers, Sequences, FiniteSets

\* ---- bounds of the model ----
MaxTime == 42
MaxAttempts == 3

\* ---- constants of the program, in seconds ----
\* setInterval(..., 20000)
PingPeriod == 20
\* setTimeout(connectSW, 1000) in the onDisconnect listener
DisconnectRetryDelay == 1
\* Mutant: the catch block uses the delay of the listener.
FailRetryDelayAsListener == DisconnectRetryDelay

\* setTimeout(connectSW, 2000) in the catch of connectSW
FailRetryDelay == 2

VARIABLES
    loaded,        \* the IIFE has reached its call connectSW()
    now,           \* the clock, in seconds
    swPort,        \* let swPort: 0 is null, else the number of the port
    ports,         \* per call: the port chrome.runtime.connect returned
    pingInterval,  \* per call: the timer of const pingInterval
    timeouts,      \* every setTimeout(connectSW, d) made so far
    calls,         \* log of the calls of connectSW
    pings,         \* log of the postMessage attempts of the ping callback
    console,       \* the console lines written
    uncaught       \* number of errors that left a handler

vars == <<loaded, now, swPort, ports, pingInterval, timeouts, calls, pings,
          console, uncaught>>

\* ---- platform outcomes of one call of connectSW ----
\* chrome.runtime.connect returns a port, or throws.
PlatformOutcomes == {"ok", "connectThrows"}
\* A throw of a later statement of the try block (fault injection).
FaultOutcomes == {"setIntervalThrows", "addListenerThrows"}

NoPort == [state |-> "none", listener |-> FALSE, queued |-> 0, handledAt |-> <<>>]
NewPort(l) == [state |-> "open", listener |-> l, queued |-> 0, handledAt |-> <<>>]
NoInterval == [state |-> "none", nextFire |-> 0]

Links == 1..Len(ports)

\* A port that exists and whose disconnect has not been delivered yet.
LinkOpen(l) == ports[l].state \in {"open", "severed"}
OpenLinks == {l \in Links : LinkOpen(l)}

RunningIntervals == {t \in 1..Len(pingInterval) : pingInterval[t].state = "running"}
PendingRetries == {r \in 1..Len(timeouts) : timeouts[r].state = "pending"}

\* Mutant: the timer is armed one second late.
setIntervalLate == [state |-> "running", nextFire |-> now + PingPeriod + 1]

\* setInterval(cb, 20000)
setInterval == [state |-> "running", nextFire |-> now + PingPeriod]

\* clearInterval(pingInterval): no effect on a timer that is not running
clearInterval(iv) == IF iv.state = "running" THEN [iv EXCEPT !.state = "cleared"] ELSE iv

\* setTimeout(connectSW, delay): one more pending timeout
setTimeout(tmo, cause, src, delay) ==
    Append(tmo, [cause |-> cause, src |-> src, at |-> now, due |-> now + delay,
                 state |-> "pending", call |-> 0])

log(con, level, src) == Append(con, [level |-> level, at |-> now, src |-> src])

\* Mutant: the catch block retries with the delay of the listener.
CatchRetryShort(tmo, id) == setTimeout(tmo, "openFail", id, DisconnectRetryDelay)

\* Mutant: the catch block schedules the retry twice.
CatchRetryTwice(tmo, id) ==
    setTimeout(setTimeout(tmo, "openFail", id, FailRetryDelay),
               "openFail", id, FailRetryDelay)

\* catch (e) { console.error(...); setTimeout(connectSW, 2000); }
CatchRetry(tmo, id) == setTimeout(tmo, "openFail", id, FailRetryDelay)

\* Mutant: the retry is scheduled on every path (as in a finally block).
ConnectTimeoutsAlways(tmo, id, o) == CatchRetry(tmo, id)

\* The timeouts connectSW leaves: the try block schedules nothing, the catch
\* block one retry.
ConnectTimeouts(tmo, id, o) == IF o = "ok" THEN tmo ELSE CatchRetry(tmo, id)

\* The body of connectSW, called with the timeouts as its caller left them,
\* `by` the timeout that called it (0: the call at load) and the outcome `o`
\* the platform gives this call.
connectSW(tmo, by, o) ==
    LET id == Len(calls) + 1 IN
    /\ Len(calls) < MaxAttempts
    /\ calls' = Append(calls, [at |-> now, by |-> by, outcome |-> o,
                               open |-> OpenLinks])
    /\ swPort' = IF o = "connectThrows" THEN swPort ELSE id
    /\ ports' = Append(ports,
                   CASE o = "connectThrows" -> NoPort
                     [] o = "ok" -> NewPort(TRUE)
                     [] OTHER -> NewPort(FALSE))
    /\ pingInterval' = Append(pingInterval,
                   IF o \in {"ok", "addListenerThrows"} THEN setInterval ELSE NoInterval)
    /\ timeouts' = ConnectTimeouts(tmo, id, o)
    /\ console' = IF o = "ok" THEN log(console, "log", id)
                  ELSE IF o = "connectThrows" THEN log(console, "error", id)
                  ELSE log(log(console, "log", id), "error", id)
    /\ UNCHANGED <<now, pings, uncaught>>

\* connectSW(); at the end of the IIFE
Load(outcomes) ==
    /\ ~loaded
    /\ loaded' = TRUE
    /\ \E o \in outcomes : connectSW(timeouts, 0, o)

\* A pending setTimeout(connectSW, d) fires at its due second.
RetryFire(outcomes) ==
    \E r \in PendingRetries :
        /\ timeouts[r].due = now
        /\ \E o \in outcomes :
              connectSW([timeouts EXCEPT ![r].state = "fired",
                                         ![r].call = Len(calls) + 1], r, o)
        /\ UNCHANGED loaded

\* The body of the onDisconnect listener of port l:
\* clearInterval(pingInterval); console.warn(...); setTimeout(connectSW, 1000)
\* Mutant: the listener retries with the delay of the catch block.
ListenerTimeoutsSlow(tmo, l) == setTimeout(tmo, "disconnect", l, FailRetryDelay)

\* Mutant: the listener schedules no retry.
ListenerTimeoutsNone(tmo, l) == tmo

\* Mutant: the listener schedules the retry twice.
ListenerTimeoutsTwice(tmo, l) ==
    setTimeout(setTimeout(tmo, "disconnect", l, DisconnectRetryDelay),
               "disconnect", l, DisconnectRetryDelay)

ListenerTimeouts(tmo, l) == setTimeout(tmo, "disconnect", l, DisconnectRetryDelay)

\* Mutant: the listener does not clear the timer.
ListenerIntervalKeep(iv) == iv

ListenerInterval(iv) == clearInterval(iv)

onDisconnect(l, ps) ==
    /\ ports' = [ps EXCEPT ![l].handledAt = Append(@, now)]
    /\ pingInterval' = [pingInterval EXCEPT ![l] = ListenerInterval(@)]
    /\ console' = log(console, "warn", l)
    /\ timeouts' = ListenerTimeouts(timeouts, l)

\* The platform loses the channel of port l (the service worker went away):
\* postMessage on it throws from now on and one disconnect event is queued.
Sever ==
    \E l \in Links :
        /\ ports[l].state = "open"
        /\ ports' = [ports EXCEPT ![l].state = "severed", ![l].queued = 1]
        /\ UNCHANGED <<loaded, now, swPort, pingInterval, timeouts, calls, pings,
                       console, uncaught>>

\* The event loop dispatches the queued disconnect event of port l to the
\* listeners registered on it.
DeliverDisconnect ==
    \E l \in Links :
        /\ ports[l].queued > 0
        /\ LET ps == [ports EXCEPT ![l].state = "closed", ![l].queued = @ - 1] IN
           IF ports[l].listener
           THEN onDisconnect(l, ps)
           ELSE /\ ports' = ps
                /\ UNCHANGED <<pingInterval, console, timeouts>>
        /\ UNCHANGED <<loaded, now, swPort, calls, pings, uncaught>>

\* Platform misbehaviour: the disconnect event of a port whose listener has
\* run once is dispatched a second time, in the same second as the first.
RedeliverDisconnect ==
    \E l \in Links :
        /\ ports[l].state = "closed"
        /\ ports[l].listener
        /\ Len(ports[l].handledAt) = 1
        /\ ports[l].handledAt[1] = now
        /\ onDisconnect(l, ports)
        /\ UNCHANGED <<loaded, now, swPort, calls, pings, uncaught>>

\* The onDisconnect listener of port l has run.
Handled(l) == l # 0 /\ ports[l].handledAt # <<>>

\* swPort.postMessage(...) succeeds on a port whose channel is up and throws
\* otherwise (also when swPort is null).
PostMessageOk == swPort # 0 /\ ports[swPort].state = "open"

\* catch (_) {} of the ping callback: what a throwing send leaves behind.
\* Mutant: a throwing send schedules a reconnect.
PingCatchTimeoutsRetry(tmo) == setTimeout(tmo, "pingFail", swPort, DisconnectRetryDelay)

PingCatchTimeouts(tmo) == tmo

PingCatchUncaught(u) == u

\* The callback of timer t: try { swPort.postMessage(...) } catch (_) {}
PingTick ==
    \E t \in RunningIntervals :
        /\ pingInterval[t].nextFire = now
        /\ pings' = pings \cup {[timer |-> t, port |-> swPort, at |-> now,
                                 ok |-> PostMessageOk,
                                 afterDisconnect |-> Handled(swPort)]}
        /\ pingInterval' = [pingInterval EXCEPT ![t].nextFire = @ + PingPeriod]
        /\ timeouts' = IF PostMessageOk THEN timeouts ELSE PingCatchTimeouts(timeouts)
        /\ uncaught' = IF PostMessageOk THEN uncaught ELSE PingCatchUncaught(uncaught)
        /\ UNCHANGED <<loaded, now, swPort, ports, calls, console>>

\* A timer is due at this second and has not run yet.
TimerDue ==
    \/ \E t \in RunningIntervals : pingInterval[t].nextFire = now
    \/ \E r \in PendingRetries : timeouts[r].due = now

\* One second passes; due timers run first, and so does the call at load.
AdvanceTime ==
    /\ loaded
    /\ now < MaxTime
    /\ ~TimerDue
    /\ now' = now + 1
    /\ UNCHANGED <<loaded, swPort, ports, pingInterval, timeouts, calls, pings,
                   console, uncaught>>

Init ==
    /\ loaded = FALSE
    /\ now = 0
    /\ swPort = 0
    /\ ports = <<>>
    /\ pingInterval = <<>>
    /\ timeouts = <<>>
    /\ calls = <<>>
    /\ pings = {}
    /\ console = <<>>
    /\ uncaught = 0

\* The page on the platform as documented.
Next ==
    \/ Load(PlatformOutcomes)
    \/ RetryFire(PlatformOutcomes)
    \/ Sever
    \/ DeliverDisconnect
    \/ PingTick
    \/ AdvanceTime

Spec == Init /\ [][Next]_vars

\* The same, with the event loop running what is enabled: the clock moves and
\* due timers fire.
FairSpec ==
    /\ Spec
    /\ WF_vars(AdvanceTime)
    /\ WF_vars(RetryFire(PlatformOutcomes))
    /\ WF_vars(PingTick)

\* The page on a platform that may dispatch a port's disconnect event twice.
NextDup ==
    \/ Load(PlatformOutcomes)
    \/ RetryFire(PlatformOutcomes)
    \/ Sever
    \/ DeliverDisconnect
    \/ RedeliverDisconnect
    \/ PingTick
    \/ AdvanceTime

SpecDup == Init /\ [][NextDup]_vars

\* The page with a throw injected at any statement of the try block.
NextFault ==
    \/ Load(PlatformOutcomes \cup FaultOutcomes)
    \/ RetryFire(PlatformOutcomes \cup FaultOutcomes)
    \/ Sever
    \/ DeliverDisconnect
    \/ PingTick
    \/ AdvanceTime

SpecFault == Init /\ [][NextFault]_vars

\* ---------------------------------------------------------------------
\* Derived views used by the properties
\* ---------------------------------------------------------------------
Calls == 1..Len(calls)
Retries == 1..Len(timeouts)

\* The retries scheduled by the onDisconnect listener of port l.
DisconnectRetries(l) ==
    {r \in Retries : timeouts[r].cause = "disconnect" /\ timeouts[r].src = l}

\* The retries scheduled by the catch block of call c.
FailRetries(c) ==
    {r \in Retries : timeouts[r].cause = "openFail" /\ timeouts[r].src = c}

\* ---------------------------------------------------------------------
\* C1 (P1, single active link): at most one Link is open at any time, the
\* open Link is the one swPort holds, and connectSW is never called while
\* a Link is open: the call before it either failed, or its Link's
\* disconnect was handled no later than this call.
\* ---------------------------------------------------------------------
C1_SingleActiveLink ==
    /\ Cardinality(OpenLinks) <= 1
    /\ \A l \in OpenLinks : swPort = l
    /\ \A c \in Calls :
          /\ calls[c].open = {}
          /\ c > 1 => \/ calls[c - 1].outcome = "connectThrows"
                      \/ /\ Handled(c - 1)
                         /\ ports[c - 1].handledAt[1] <= calls[c].at

\* A Link opened after a disconnect and a failed attempt, and still open.
C1_Witness ==
    /\ Len(calls) = 3
    /\ calls[1].outcome = "ok"
    /\ calls[2].outcome = "connectThrows"
    /\ calls[3].outcome = "ok"
    /\ Handled(1)
    /\ LinkOpen(3)

\* ---------------------------------------------------------------------
\* C2 (P5, no duplicate timers): never more than one running heartbeat
\* timer, never more than one pending retry, and while a Link is open the
\* one running heartbeat timer is the timer of that Link.
\* ---------------------------------------------------------------------
C2_NoDuplicateTimers ==
    /\ Cardinality(RunningIntervals) <= 1
    /\ Cardinality(PendingRetries) <= 1
    /\ \A l \in OpenLinks : RunningIntervals = {l}

\* Two disconnect/reconnect cycles done, the third Link open with its timer.
C2_Witness ==
    /\ Len(calls) = 3
    /\ \A c \in Calls : calls[c].outcome = "ok"
    /\ Handled(1) /\ Handled(2)
    /\ LinkOpen(3)
    /\ RunningIntervals = {3}

\* ---------------------------------------------------------------------
\* C3 (Scenario C, disconnect idempotence): when the disconnect event of
\* a port is dispatched twice, its listener takes effect at most once: one
\* retry is scheduled for that port, so one new Link and one new heartbeat
\* timer result.
\* ---------------------------------------------------------------------
C3_DisconnectIdempotent ==
    /\ \A l \in Links : Cardinality(DisconnectRetries(l)) <= 1
    /\ Cardinality(OpenLinks) <= 1
    /\ Cardinality(RunningIntervals) <= 1

\* The postMessage attempts made on port l.
PingsOn(l) == {p \in pings : p.port = l}
PingsOnAt(l, t) == {p \in PingsOn(l) : p.at = t}

\* ---------------------------------------------------------------------
\* C4 (P2, heartbeat cadence), as amended: for a Link opened at T0 whose
\* disconnect is handled at D (or that is still open, with D the current
\* second), a send is attempted on it exactly once at every second
\* T0 + 20k (k >= 1) earlier than D, at most once at second D itself (a tick
\* that was dispatched before the listener in that same second), at no
\* other second, and never after the listener has run.
\* ---------------------------------------------------------------------
C4_HeartbeatCadence ==
    \A l \in Links : ports[l].state # "none" =>
        LET T0 == calls[l].at
            D == IF Handled(l) THEN ports[l].handledAt[1] ELSE now
        IN  /\ \A p \in PingsOn(l) :
                  /\ p.at > T0
                  /\ (p.at - T0) % 20 = 0
                  /\ p.at <= D
                  /\ ~p.afterDisconnect
            /\ \A t \in (T0 + 1)..(D - 1) :
                  (t - T0) % 20 = 0 => Cardinality(PingsOnAt(l, t)) = 1
            /\ Cardinality(PingsOnAt(l, D)) <= 1

\* Link 1 opened at 0 and handled at 41: sends at 20 and 40 only.
C4_Witness ==
    /\ Len(calls) >= 1
    /\ calls[1].at = 0
    /\ Handled(1)
    /\ ports[1].handledAt[1] = 41
    /\ {p.at : p \in PingsOn(1)} = {20, 40}

\* C4 as stated: the sends on a handled Link are exactly those at the
\* seconds T0 + 20k earlier than D, none at a second >= D.
C4_Original ==
    \A l \in Links : Handled(l) =>
        LET T0 == calls[l].at
            D == ports[l].handledAt[1]
        IN  /\ \A p \in PingsOn(l) :
                  p.at > T0 /\ (p.at - T0) % 20 = 0 /\ p.at < D
            /\ \A t \in (T0 + 1)..(D - 1) :
                  (t - T0) % 20 = 0 => Cardinality(PingsOnAt(l, t)) = 1

\* ---------------------------------------------------------------------
\* C5 (P3, retry delay on disconnect): the listener of a Link that runs at
\* second T schedules exactly one retry, due at T + 1; no call of connectSW
\* after that Link's call begins before T + 1, and the one call the retry
\* makes begins at T + 1.
\* ---------------------------------------------------------------------
C5_RetryDelayOnDisconnect ==
    \A l \in Links : Handled(l) =>
        LET T == ports[l].handledAt[1] IN
        /\ Cardinality(DisconnectRetries(l)) = 1
        /\ \A r \in DisconnectRetries(l) :
              /\ timeouts[r].at = T
              /\ timeouts[r].due = T + 1
              /\ timeouts[r].state = "pending" => (now <= T + 1 /\ Len(calls) = l)
              /\ timeouts[r].state = "fired" =>
                    /\ timeouts[r].call = l + 1
                    /\ calls[l + 1].by = r
                    /\ calls[l + 1].at = T + 1
        /\ \A c \in Calls : c > l => calls[c].at >= T + 1
        /\ Cardinality({c \in Calls : calls[c].by \in DisconnectRetries(l)}) <= 1

\* The retry of a handled disconnect has fired.
C5_Witness ==
    \E l \in Links :
        /\ Handled(l)
        /\ \E r \in DisconnectRetries(l) : timeouts[r].state = "fired"
        /\ Len(calls) > l
        /\ calls[l + 1].at = ports[l].handledAt[1] + 1

\* ---------------------------------------------------------------------
\* C6 (P4 / Scenario B, retry on open failure): a call of connectSW in
\* which chrome.runtime.connect throws at second T writes exactly one error
\* line, schedules exactly one retry, due at T + 2, whose call is the next
\* call and begins at T + 2, and creates no port, no listener and no
\* heartbeat timer.
\* ---------------------------------------------------------------------
C6_RetryOnOpenFailure ==
    \A c \in Calls : calls[c].outcome = "connectThrows" =>
        LET T == calls[c].at IN
        /\ Cardinality({i \in 1..Len(console) :
                          console[i].level = "error" /\ console[i].src = c}) = 1
        /\ Cardinality(FailRetries(c)) = 1
        /\ \A r \in FailRetries(c) :
              /\ timeouts[r].at = T
              /\ timeouts[r].due = T + 2
              /\ timeouts[r].state = "pending" => (now <= T + 2 /\ Len(calls) = c)
              /\ timeouts[r].state = "fired" =>
                    /\ timeouts[r].call = c + 1
                    /\ calls[c + 1].by = r
                    /\ calls[c + 1].at = T + 2
        /\ \A d \in Calls : d > c => calls[d].at >= T + 2
        /\ ports[c] = NoPort
        /\ pingInterval[c] = NoInterval

\* The first call failed at 0 and its retry made the second call at 2.
C6_Witness ==
    /\ Len(calls) >= 2
    /\ calls[1].outcome = "connectThrows"
    /\ calls[1].at = 0
    /\ calls[2].at = 2
    /\ RunningIntervals \subseteq {2}

\* ---------------------------------------------------------------------
\* C7 (P6, failure isolation): a throwing postMessage changes nothing but
\* the timer's next due second: no error leaves the callback, the timer
\* keeps running, swPort and the ports are unchanged and no retry is
\* scheduled; so the retries of a Link whose sends failed are exactly the
\* one its listener schedules.
\* ---------------------------------------------------------------------
C7_FailedSendStep ==
    (\E p \in pings' \ pings : ~p.ok) =>
        /\ timeouts' = timeouts
        /\ swPort' = swPort
        /\ ports' = ports
        /\ uncaught' = uncaught
        /\ console' = console
        /\ RunningIntervals' = RunningIntervals

C7_FailedSendState ==
    /\ uncaught = 0
    /\ \A l \in Links : (\E p \in PingsOn(l) : ~p.ok) =>
          /\ {r \in Retries : timeouts[r].src = l} = DisconnectRetries(l)
          /\ Cardinality(DisconnectRetries(l)) = IF Handled(l) THEN 1 ELSE 0

\* C7: the state part holds always and every failed send is such a step.
C7_FailureIsolation == []C7_FailedSendState /\ [][C7_FailedSendStep]_vars

\* Two sends failed on a Link before its listener ran and scheduled a retry.
C7_Witness ==
    \E l \in Links :
        /\ Cardinality({p \in PingsOn(l) : ~p.ok}) = 2
        /\ Handled(l)
        /\ Cardinality(DisconnectRetries(l)) = 1

\* ---------------------------------------------------------------------
\* C8 (establish never throws, never leaves two timers): whichever
\* statement of the try block throws, no error leaves connectSW, the
\* failed call schedules exactly one retry, and at most one heartbeat timer
\* is running afterwards.
\* ---------------------------------------------------------------------
C8_EstablishNeverLeaksTimer ==
    /\ uncaught = 0
    /\ \A c \in Calls : calls[c].outcome # "ok" => Cardinality(FailRetries(c)) = 1
    /\ Cardinality(RunningIntervals) <= 1

\* ---------------------------------------------------------------------
\* C9 (no terminal state): once connectSW has been called, either a Link
\* is open with its heartbeat timer running and its listener registered, or
\* a retry is pending; every handled disconnect and every failed call has
\* scheduled a retry; a retry stops being pending only by calling
\* connectSW; and, with the clock moving and due timers firing, every
\* pending retry that the bounds of the model let fire does fire.
\* ---------------------------------------------------------------------
C9_LinkOrRetry ==
    /\ loaded =>
          \/ \E l \in OpenLinks : pingInterval[l].state = "running" /\ ports[l].listener
          \/ PendingRetries # {}
    /\ \A l \in Links : Handled(l) => DisconnectRetries(l) # {}
    /\ \A c \in Calls : calls[c].outcome = "connectThrows" => FailRetries(c) # {}

C9_RetryEndsInCall ==
    \A r \in PendingRetries :
        r \notin PendingRetries' =>
            /\ Len(calls') = Len(calls) + 1
            /\ calls'[Len(calls')].by = r

\* A pending retry that the bounds of the model let fire.
CanFire(r) ==
    r \in PendingRetries /\ Len(calls) < MaxAttempts /\ timeouts[r].due <= MaxTime

\* C9: the three parts above, the last under the fairness of FairSpec.
C9_PerpetualReconnection ==
    /\ []C9_LinkOrRetry
    /\ [][C9_RetryEndsInCall]_vars
    /\ (\E r \in Retries : CanFire(r)) ~> (\A r \in Retries : ~CanFire(r))

\* A disconnect and a failed call were each followed by a new call.
C9_Witness ==
    /\ Len(calls) = 3
    /\ calls[1].outcome = "ok"
    /\ calls[2].outcome = "connectThrows"
    /\ timeouts[1].cause = "disconnect" /\ timeouts[1].call = 2
    /\ timeouts[2].cause = "openFail" /\ timeouts[2].call = 3

\* ---------------------------------------------------------------------
\* C10 (cleanup before retry): the heartbeat timer of a Link is cleared
\* when its listener has run, so a pending retry and a running heartbeat
\* timer never coexist and no tick sends on a Link whose disconnect has
\* been handled.
\* ---------------------------------------------------------------------
C10_CleanupBeforeRetry ==
    /\ ~(PendingRetries # {} /\ RunningIntervals # {})
    /\ \A l \in Links : Handled(l) => pingInterval[l].state = "cleared"
    /\ \A p \in pings : ~p.afterDisconnect

\* A Link that carried pings is handled: its timer cleared, its retry pending.
C10_Witness ==
    \E l \in Links :
        /\ Handled(l)
        /\ PingsOn(l) # {}
        /\ pingInterval[l].state = "cleared"
        /\ DisconnectRetries(l) \cap PendingRetries # {}

\* ---------------------------------------------------------------------
\* The state of the manager, read off the state of the page:
\*   Connecting    a call of connectSW is due (the call at load, or a retry
\*                 whose timeout has come due)
\*   Disconnected  no Link is open and a retry is pending, not yet due
\*   Open          a Link is open and no retry is pending
\* ---------------------------------------------------------------------
ManagerState ==
    IF ~loaded THEN "Connecting"
    ELSE IF PendingRetries # {} /\ OpenLinks # {} THEN "Overlap"
    ELSE IF \E r \in PendingRetries : timeouts[r].due <= now THEN "Connecting"
    ELSE IF PendingRetries # {} THEN "Disconnected"
    ELSE IF OpenLinks # {} THEN "Open"
    ELSE "Idle"

\* ---------------------------------------------------------------------
\* C11 (state-machine conformance): the manager starts in Connecting, with
\* connectSW called once at load; it is always in Connecting, Open or
\* Disconnected; and every change of state is Connecting -> Open on a call
\* that succeeds, Connecting -> Disconnected on a call that fails (retry
\* due 2 s later), Open -> Disconnected on the listener running (retry due
\* 1 s later), or Disconnected -> Connecting when the pending retry comes
\* due.
\* ---------------------------------------------------------------------
C11_States ==
    /\ ManagerState \in {"Connecting", "Open", "Disconnected"}
    /\ Cardinality({c \in Calls : calls[c].by = 0}) = IF loaded THEN 1 ELSE 0
    /\ loaded => (calls[1].by = 0 /\ calls[1].at = 0)

C11_Step ==
    ManagerState' # ManagerState =>
        \/ /\ ManagerState = "Connecting" /\ ManagerState' = "Open"
           /\ Len(calls') = Len(calls) + 1
           /\ calls'[Len(calls')].outcome = "ok"
        \/ /\ ManagerState = "Connecting" /\ ManagerState' = "Disconnected"
           /\ Len(calls') = Len(calls) + 1
           /\ calls'[Len(calls')].outcome = "connectThrows"
           /\ \A r \in PendingRetries' : timeouts'[r].due = now + 2
        \/ /\ ManagerState = "Open" /\ ManagerState' = "Disconnected"
           /\ \E l \in Links : ~Handled(l) /\ Handled(l)'
           /\ \A r \in PendingRetries' : timeouts'[r].due = now + 1
        \/ /\ ManagerState = "Disconnected" /\ ManagerState' = "Connecting"
           /\ now' = now + 1
           /\ timeouts' = timeouts
           /\ \E r \in PendingRetries : timeouts[r].due = now'

\* C11: the initial state, the states and the steps above.
C11_StateMachine ==
    /\ ManagerState = "Connecting"
    /\ []C11_States
    /\ [][C11_Step]_vars

\* All four transitions taken: a Link was opened and handled, its retry came
\* due and its call failed, and the retry of that failure has come due.
C11_Witness ==
    /\ Len(calls) = 2
    /\ calls[1].outcome = "ok"
    /\ Handled(1)
    /\ calls[2].outcome = "connectThrows"
    /\ ManagerState = "Connecting"
    /\ \E r \in PendingRetries : timeouts[r].cause = "openFail" /\ timeouts[r].due = now

\* ---------------------------------------------------------------------
\* C12 (Link reference lifecycle): once the listener of a Link has run,
\* swPort no longer refers to that Link; in particular swPort refers to no
\* closed Link while a retry is pending.
\* ---------------------------------------------------------------------
C12_NoStaleLinkReference ==
    /\ \A l \in Links : Handled(l) => swPort # l
    /\ PendingRetries # {} => (swPort = 0 \/ ports[swPort].state # "closed")

\* ---------------------------------------------------------------------
\* C13 (Pending Retry lifecycle): a step adds at most one retry, and only
\* when a listener ran or a call of connectSW failed in that step; a retry
\* is changed by no step but its own firing, at its due second, which makes
\* exactly one call of connectSW; ping callbacks leave the retries as they
\* are.
\* ---------------------------------------------------------------------
C13_Step ==
    /\ Len(timeouts') >= Len(timeouts)
    /\ \A r \in Retries :
          \/ timeouts'[r] = timeouts[r]
          \/ /\ timeouts[r].state = "pending"
             /\ timeouts[r].due = now
             /\ timeouts'[r] = [timeouts[r] EXCEPT !.state = "fired",
                                                   !.call = Len(calls) + 1]
             /\ Len(calls') = Len(calls) + 1
             /\ calls'[Len(calls')].by = r
    /\ Len(timeouts') > Len(timeouts) =>
          /\ Len(timeouts') = Len(timeouts) + 1
          /\ LET n == timeouts'[Len(timeouts')] IN
             /\ n.state = "pending"
             /\ \/ /\ n.cause = "disconnect"
                   /\ \E l \in Links : n.src = l /\ ~Handled(l) /\ Handled(l)'
                \/ /\ n.cause = "openFail"
                   /\ Len(calls') = Len(calls) + 1
                   /\ n.src = Len(calls')
                   /\ calls'[n.src].outcome = "connectThrows"
    /\ pings' # pings => timeouts' = timeouts

C13_State ==
    \A r \in Retries :
        Cardinality({c \in Calls : calls[c].by = r})
            = IF timeouts[r].state = "fired" THEN 1 ELSE 0

\* C13: every step treats the retries as above, and a retry has made one
\* call of connectSW when it has fired and none before.
C13_RetryLifecycle == []C13_State /\ [][C13_Step]_vars

\* A retry has fired, pings were sent since, and the next retry is pending.
C13_Witness ==
    /\ \E r \in Retries : timeouts[r].state = "fired" /\ PingsOn(timeouts[r].call) # {}
    /\ PendingRetries # {}

\* The timers that have attempted a send on port l.
TimersOn(l) == {p.timer : p \in PingsOn(l)}

\* ---------------------------------------------------------------------
\* C14 (heartbeat target): every tick sends on the port opened by the call
\* of connectSW that started the ticking timer (swPort, read when the tick
\* fires, is that port), and the pings a port receives all come from one
\* timer.
\* ---------------------------------------------------------------------
C14_HeartbeatTarget ==
    /\ \A p \in pings : p.port = p.timer
    /\ \A t \in RunningIntervals : swPort = t
    /\ \A l \in Links : Cardinality(TimersOn(l)) <= 1

\* Two Links have each been pinged by their own timer.
C14_Witness ==
    /\ Len(calls) >= 2
    /\ \E p \in pings : p.timer = 1 /\ p.port = 1 /\ p.ok
    /\ \E p \in pings : p.timer = 2 /\ p.port = 2 /\ p.ok

\* Counts over the run so far.
RECURSIVE SumHandled(_)
SumHandled(n) == IF n = 0 THEN 0 ELSE Len(ports[n].handledAt) + SumHandled(n - 1)

FiredRetries == {r \in Retries : timeouts[r].state = "fired"}
HandledLinks == {l \in Links : Handled(l)}
FailedCalls == {c \in Calls : calls[c].outcome # "ok"}

\* ---------------------------------------------------------------------
\* C15 (no reconnect storm): once connectSW has been called at load, the
\* number of calls of connectSW is 1 plus the number of retries fired; the
\* number of retries ever scheduled is the number of Links whose disconnect
\* has been handled plus the number of failed calls; and each Link is
\* followed by at most one call made by a retry of its listener.
\* ---------------------------------------------------------------------
C15_NoReconnectStorm ==
    /\ Len(calls) = IF loaded THEN 1 + Cardinality(FiredRetries) ELSE 0
    /\ Len(timeouts) = Cardinality(HandledLinks) + Cardinality(FailedCalls)
    /\ Len(timeouts) = SumHandled(Len(ports)) + Cardinality(FailedCalls)
    /\ \A l \in Links :
          Cardinality({c \in Calls : calls[c].by \in DisconnectRetries(l)}) <= 1

\* Three calls: the one at load and two made by retries, one scheduled by a
\* listener and one by the catch block.
C15_Witness ==
    /\ Len(calls) = 3
    /\ Cardinality(FiredRetries) = 2
    /\ Cardinality(HandledLinks) >= 1
    /\ Cardinality(FailedCalls) >= 1
    /\ \E l \in Links : \E c \in Calls : calls[c].by \in DisconnectRetries(l)

====
